---- MODULE Spec2Model ----
(***************************************************************************)
(* Model of get_req.py: clean_dependencies(file_path, output_path).        *)
(*                                                                         *)
(* A text is a sequence of one-character strings.  The file system maps a  *)
(* path to a record [exists, data].  One invocation of clean_dependencies  *)
(* walks through the statements of the function; pc is its position.       *)
(***************************************************************************)
EXTENDS Naturals, Sequences, FiniteSets

(* ---------------------------------------------------------------- bounds *)
MaxLen == 3
MaxRuns == 2

(* ------------------------------------------------------------- alphabet *)
\* '-' and ' ' are the characters of the lstrip argument, tab and newline
\* are whitespace that is not in that argument, "a" stands for any other
\* character of a dependency entry.
Alphabet == {"-", " ", "\t", "\n", "a"}

Texts(n) == UNION {[1..k -> Alphabet] : k \in 0..n}

\* the paths the function may be called with, and a file it is never given
ArgPaths == {"in.txt", "out.txt"}
Paths == ArgPaths \cup {"other.txt"}

Missing == [exists |-> FALSE, data |-> <<>>]
File(d) == [exists |-> TRUE, data |-> d]

\* what a file that is not the varied input holds before the first run
OldData == <<"-", "a">>

(* ------------------------------------------------------ string functions *)
\* the argument of line.lstrip("- ")
StripChars == {"-", " "}

\* the characters str.strip() removes when called without argument
Whitespace == {" ", "\t", "\n"}

RECURSIVE lstrip(_, _)
lstrip(s, chars) ==
  IF s # <<>> /\ Head(s) \in chars THEN lstrip(Tail(s), chars) ELSE s

RECURSIVE rstrip(_, _)
rstrip(s, chars) ==
  IF s # <<>> /\ s[Len(s)] \in chars
  THEN rstrip(SubSeq(s, 1, Len(s) - 1), chars)
  ELSE s

strip(s) == rstrip(lstrip(s, Whitespace), Whitespace)

\* line.lstrip("- ").strip()
CleanLine(line) == strip(lstrip(line, StripChars))

\* mutant: a comprehension that filters out the lines that clean to nothing
CleanAllSkipEmpty(ls) ==
  SelectSeq([i \in 1..Len(ls) |-> CleanLine(ls[i])], LAMBDA c : c # <<>>)

\* [line.lstrip("- ").strip() for line in lines]
CleanAll(ls) == [i \in 1..Len(ls) |-> CleanLine(ls[i])]

\* index of the end of the first line of a non-empty text
FirstLineEnd(d) ==
  IF \E i \in 1..Len(d) : d[i] = "\n"
  THEN CHOOSE i \in 1..Len(d) : d[i] = "\n" /\ \A j \in 1..(i - 1) : d[j] # "\n"
  ELSE Len(d)

\* f.readlines(): the lines of the text, each with its terminator
RECURSIVE readlines(_)
readlines(d) ==
  IF d = <<>> THEN <<>>
  ELSE LET k == FirstLineEnd(d)
       IN  <<SubSeq(d, 1, k)>> \o readlines(SubSeq(d, k + 1, Len(d)))

\* mutant: the entries joined last to first
RECURSIVE joinReversed(_, _)
joinReversed(sep, ls) ==
  IF ls = <<>> THEN <<>>
  ELSE IF Len(ls) = 1 THEN ls[1]
  ELSE joinReversed(sep, Tail(ls)) \o sep \o ls[1]

\* sep.join(ls)
RECURSIVE join(_, _)
join(sep, ls) ==
  IF ls = <<>> THEN <<>>
  ELSE IF Len(ls) = 1 THEN ls[1]
  ELSE ls[1] \o sep \o join(sep, Tail(ls))

(* ----------------------------------------------------------------- state *)
VARIABLES
  fs,             \* the file system: path -> [exists, data]
  file_path,      \* first argument of the running invocation
  output_path,    \* second argument of the running invocation
  pc,             \* position of the invocation in clean_dependencies
  lines,          \* local variable lines
  cleaned_lines,  \* local variable cleaned_lines
  f_in,           \* TRUE while the handle of open(file_path, 'r') is open
  f_out,          \* TRUE while the handle of open(output_path, 'w') is open
  stdout,         \* what the invocation has printed
  error,          \* "none", or which open/read/write raised
  fs0,            \* history: the file system when the invocation started
  prev,           \* history: the previous invocation, when it succeeded
  run             \* number of the invocation

vars == <<fs, file_path, output_path, pc, lines, cleaned_lines, f_in, f_out,
          stdout, error, fs0, prev, run>>

NoPrev == [ok |-> FALSE, file_path |-> "", output_path |-> "",
           input |-> <<>>, output |-> <<>>]

Message(p) == <<"Dependencies cleaned and saved to", p>>

Init ==
  /\ \E i \in {Missing} \cup {File(d) : d \in Texts(MaxLen)},
        o \in {Missing, File(OldData)} :
       fs = [p \in Paths |-> IF p = "in.txt" THEN i
                            ELSE IF p = "out.txt" THEN o
                            ELSE File(OldData)]
  /\ file_path \in ArgPaths
  /\ output_path \in ArgPaths
  /\ pc = "open_in"
  /\ lines = <<>>
  /\ cleaned_lines = <<>>
  /\ f_in = FALSE
  /\ f_out = FALSE
  /\ stdout = <<>>
  /\ error = "none"
  /\ fs0 = fs
  /\ prev = NoPrev
  /\ run = 1

(* --------------------------------------------------------------- actions *)
\* mutant: the input opened in a mode that creates a missing file
OpenInputCreating ==
  /\ pc = "open_in"
  /\ fs' = [fs EXCEPT ![file_path] = File(fs[file_path].data)]
  /\ f_in' = TRUE
  /\ pc' = "read"
  /\ UNCHANGED <<file_path, output_path, lines, cleaned_lines, f_out,
                 stdout, error, fs0, prev, run>>

\* line 2: open(file_path, 'r') succeeds on an existing file
OpenInput ==
  /\ pc = "open_in"
  /\ fs[file_path].exists
  /\ f_in' = TRUE
  /\ pc' = "read"
  /\ UNCHANGED <<fs, file_path, output_path, lines, cleaned_lines, f_out,
                 stdout, error, fs0, prev, run>>

\* line 2: open(file_path, 'r') raises (missing file, or no permission)
OpenInputFail ==
  /\ pc = "open_in"
  /\ pc' = "error"
  /\ error' = "input"
  /\ UNCHANGED <<fs, file_path, output_path, lines, cleaned_lines, f_in,
                 f_out, stdout, fs0, prev, run>>

\* mutant: f.readline() in place of f.readlines(), one line is read
ReadFirstLine ==
  /\ pc = "read"
  /\ lines' = LET ls == readlines(fs[file_path].data)
              IN  IF ls = <<>> THEN <<>> ELSE <<ls[1]>>
  /\ pc' = "close_in"
  /\ UNCHANGED <<fs, file_path, output_path, cleaned_lines, f_in, f_out,
                 stdout, error, fs0, prev, run>>

\* line 3: lines = f.readlines()
ReadAll ==
  /\ pc = "read"
  /\ lines' = readlines(fs[file_path].data)
  /\ pc' = "close_in"
  /\ UNCHANGED <<fs, file_path, output_path, cleaned_lines, f_in, f_out,
                 stdout, error, fs0, prev, run>>

\* line 3: f.readlines() raises; the with statement closes the handle
ReadFail ==
  /\ pc = "read"
  /\ f_in' = FALSE
  /\ pc' = "error"
  /\ error' = "input"
  /\ UNCHANGED <<fs, file_path, output_path, lines, cleaned_lines, f_out,
                 stdout, fs0, prev, run>>

\* mutant: the input opened without a with statement and never closed
CloseInputLeak ==
  /\ pc = "close_in"
  /\ pc' = "clean"
  /\ UNCHANGED <<fs, file_path, output_path, lines, cleaned_lines, f_in,
                 f_out, stdout, error, fs0, prev, run>>

\* lines 2-3: leaving the with block closes the input handle
CloseInput ==
  /\ pc = "close_in"
  /\ f_in' = FALSE
  /\ pc' = "clean"
  /\ UNCHANGED <<fs, file_path, output_path, lines, cleaned_lines, f_out,
                 stdout, error, fs0, prev, run>>

\* line 6: cleaned_lines = [line.lstrip("- ").strip() for line in lines]
Clean ==
  /\ pc = "clean"
  /\ cleaned_lines' = CleanAll(lines)
  /\ pc' = "open_out"
  /\ UNCHANGED <<fs, file_path, output_path, lines, f_in, f_out, stdout,
                 error, fs0, prev, run>>

\* mutant: mode 'a' in place of 'w', the file is not truncated
OpenOutputAppend ==
  /\ pc = "open_out"
  /\ fs' = [fs EXCEPT ![output_path] = File(fs[output_path].data)]
  /\ f_out' = TRUE
  /\ pc' = "write"
  /\ UNCHANGED <<file_path, output_path, lines, cleaned_lines, f_in, stdout,
                 error, fs0, prev, run>>

\* mutant: open(file_path, 'w'), the wrong argument is truncated
OpenOutputWrongPath ==
  /\ pc = "open_out"
  /\ fs' = [fs EXCEPT ![file_path] = File(<<>>)]
  /\ f_out' = TRUE
  /\ pc' = "write"
  /\ UNCHANGED <<file_path, output_path, lines, cleaned_lines, f_in, stdout,
                 error, fs0, prev, run>>

\* line 9: open(output_path, 'w') creates the file or truncates it
OpenOutput ==
  /\ pc = "open_out"
  /\ fs' = [fs EXCEPT ![output_path] = File(<<>>)]
  /\ f_out' = TRUE
  /\ pc' = "write"
  /\ UNCHANGED <<file_path, output_path, lines, cleaned_lines, f_in, stdout,
                 error, fs0, prev, run>>

\* mutant: the message printed in a finally clause, also when open raises
OpenOutputFailReports ==
  /\ pc = "open_out"
  /\ stdout' = Append(stdout, Message(output_path))
  /\ pc' = "error"
  /\ error' = "output"
  /\ UNCHANGED <<fs, file_path, output_path, lines, cleaned_lines, f_in,
                 f_out, fs0, prev, run>>

\* line 9: open(output_path, 'w') raises (directory missing or not writable)
OpenOutputFail ==
  /\ pc = "open_out"
  /\ pc' = "error"
  /\ error' = "output"
  /\ UNCHANGED <<fs, file_path, output_path, lines, cleaned_lines, f_in,
                 f_out, stdout, fs0, prev, run>>

\* line 10: f.write('\n'.join(cleaned_lines)) at the handle's position
Write ==
  /\ pc = "write"
  /\ fs' = [fs EXCEPT ![output_path] =
              File(fs[output_path].data \o join(<<"\n">>, cleaned_lines))]
  /\ pc' = "close_out"
  /\ UNCHANGED <<file_path, output_path, lines, cleaned_lines, f_in, f_out,
                 stdout, error, fs0, prev, run>>

\* line 10: the write raises after some prefix of the text reached the file;
\* the with statement closes the handle
WriteFail ==
  /\ pc = "write"
  /\ \E k \in 0..Len(join(<<"\n">>, cleaned_lines)) :
       fs' = [fs EXCEPT ![output_path] =
                File(fs[output_path].data
                       \o SubSeq(join(<<"\n">>, cleaned_lines), 1, k))]
  /\ f_out' = FALSE
  /\ pc' = "error"
  /\ error' = "output"
  /\ UNCHANGED <<file_path, output_path, lines, cleaned_lines, f_in, stdout,
                 fs0, prev, run>>

\* lines 9-10: leaving the with block closes the output handle
CloseOutput ==
  /\ pc = "close_out"
  /\ f_out' = FALSE
  /\ pc' = "print"
  /\ UNCHANGED <<fs, file_path, output_path, lines, cleaned_lines, f_in,
                 stdout, error, fs0, prev, run>>

\* line 12: print("Dependencies cleaned and saved to", output_path)
Report ==
  /\ pc = "print"
  /\ stdout' = Append(stdout, Message(output_path))
  /\ pc' = "done"
  /\ UNCHANGED <<fs, file_path, output_path, lines, cleaned_lines, f_in,
                 f_out, error, fs0, prev, run>>

\* line 18: the script is run again, after a run that ended
Invoke ==
  /\ pc \in {"done", "error"}
  /\ run < MaxRuns
  /\ \E a \in ArgPaths, b \in ArgPaths :
       /\ file_path' = a
       /\ output_path' = b
  /\ prev' = IF pc = "done"
             THEN [ok |-> TRUE, file_path |-> file_path,
                   output_path |-> output_path,
                   input |-> fs0[file_path].data,
                   output |-> fs[output_path].data]
             ELSE NoPrev
  /\ fs0' = fs
  /\ lines' = <<>>
  /\ cleaned_lines' = <<>>
  /\ stdout' = <<>>
  /\ error' = "none"
  /\ pc' = "open_in"
  /\ run' = run + 1
  /\ UNCHANGED <<fs, f_in, f_out>>

Next ==
  \/ OpenInput
  \/ OpenInputFail
  \/ ReadAll
  \/ ReadFail
  \/ CloseInput
  \/ Clean
  \/ OpenOutput
  \/ OpenOutputFail
  \/ Write
  \/ WriteFail
  \/ CloseOutput
  \/ Report
  \/ Invoke

Spec == Init /\ [][Next]_vars

\* the whole function on the text of a file, as the text it writes
Transform(d) == join(<<"\n">>, CleanAll(readlines(d)))

TypeOK ==
  /\ pc \in {"open_in", "read", "close_in", "clean", "open_out", "write",
             "close_out", "print", "done", "error"}
  /\ file_path \in ArgPaths
  /\ output_path \in ArgPaths
  /\ f_in \in BOOLEAN
  /\ f_out \in BOOLEAN
  /\ error \in {"none", "input", "output"}
  /\ run \in 1..MaxRuns

(* ---------------------------------------------------------------- claims *)
\* the text of the input file when the invocation started, and its lines
InputData == fs0[file_path].data
InputLines == readlines(InputData)

\* the text the output file holds now
OutputData == fs[output_path].data

\* the number of lines of a text, as reading it back line by line counts them
LineCount(d) == Len(readlines(d))

\* the entries of a text between its newline characters (d.split("\n"))
RECURSIVE Entries(_)
Entries(d) ==
  IF \A i \in 1..Len(d) : d[i] # "\n" THEN <<d>>
  ELSE LET k == FirstLineEnd(d)
       IN  <<SubSeq(d, 1, k - 1)>> \o Entries(SubSeq(d, k + 1, Len(d)))

\* C1: every cleaned line has no leading '-' or ' ' and no leading or
\* trailing whitespace.  Stated as the claim has it; the code violates it
\* for a line whose '-' follows a tab, such as "\t-a".
C1_CleanedLinesStripped ==
  \A i \in 1..Len(cleaned_lines) :
    LET c == cleaned_lines[i]
    IN  c = <<>> \/ ( /\ Head(c) \notin StripChars \cup Whitespace
                      /\ c[Len(c)] \notin Whitespace )

\* C2: idempotence.  A successful run whose input is the output file of the
\* previous successful run writes a text identical to that previous output.
\* Stated as the claim has it; the code violates it.
C2_Idempotent ==
  (pc = "done" /\ prev.ok /\ file_path = prev.output_path)
    => OutputData = prev.output

\* C3, as claimed: after a successful run the output file has as many lines
\* as were read from the input file.  The code violates it when the last
\* input line cleans to the empty string.
C3_LineCountPreserved ==
  pc = "done" => LineCount(OutputData) = Len(InputLines)

\* C3, amended: after a successful run as many entries were joined as lines
\* were read, and the output file has as many lines as the input, except
\* that it has one line fewer when the last input line cleans to the empty
\* string.
C3_LineCountAmended ==
  pc = "done" =>
    LET n == Len(InputLines)
    IN  /\ Len(cleaned_lines) = n
        /\ LineCount(OutputData) =
             IF n > 0 /\ CleanLine(InputLines[n]) = <<>> THEN n - 1 ELSE n

C3_Witness ==
  /\ pc = "done"
  /\ Len(InputLines) >= 2
  /\ CleanLine(InputLines[Len(InputLines)]) = <<>>
  /\ LineCount(OutputData) = Len(InputLines) - 1

\* the scenario of the specification: "- numpy==1.2.0", "  - pandas", "scipy"
ScenarioLines ==
  << <<"-", " ", "n", "u", "m", "p", "y", "=", "=", "1", ".", "2", ".", "0", "\n">>,
     <<" ", " ", "-", " ", "p", "a", "n", "d", "a", "s", "\n">>,
     <<"s", "c", "i", "p", "y">> >>

ScenarioOutput ==
  <<"n", "u", "m", "p", "y", "=", "=", "1", ".", "2", ".", "0", "\n",
    "p", "a", "n", "d", "a", "s", "\n", "s", "c", "i", "p", "y">>

\* C4: order preservation.  After a successful run on an input of n >= 1
\* lines the output text has exactly n newline-separated entries and the
\* i-th is the cleaned i-th input line; an input without lines gives the
\* empty text; the scenario's three lines give "numpy==1.2.0\npandas\nscipy".
C4_OrderPreserved ==
  /\ pc = "done" =>
       LET n == Len(InputLines)
           out == Entries(OutputData)
       IN  IF n = 0 THEN OutputData = <<>>
           ELSE /\ Len(out) = n
                /\ \A i \in 1..n : out[i] = CleanLine(InputLines[i])
  /\ join(<<"\n">>, CleanAll(ScenarioLines)) = ScenarioOutput

C4_Witness ==
  /\ pc = "done"
  /\ Len(InputLines) >= 2
  /\ Entries(OutputData)[1] # Entries(OutputData)[2]
  /\ Entries(OutputData)[1] # InputLines[1]

\* C5: a run whose input cannot be opened or read ends in the error state
\* with no file created or modified and the output never opened; a missing
\* input file can only take the run to that state.
C5_InputFailure ==
  /\ [](error = "input" =>
          pc = "error" /\ fs = fs0 /\ ~f_out /\ ~f_in /\ stdout = <<>>)
  /\ [][(pc = "open_in" /\ ~fs[file_path].exists) =>
          (pc' = "error" /\ error' = "input" /\ fs' = fs)]_vars

C5_Witness ==
  /\ pc = "error"
  /\ error = "input"
  /\ ~fs0[file_path].exists
  /\ file_path # output_path
  /\ fs[output_path] = File(OldData)

\* C6: after a successful run the output file exists and holds exactly the
\* newline-joined cleaned lines of the input as it was when the run
\* started, whatever the output file held before; a successful re-run with
\* the same arguments on the same input text leaves the same output text.
C6_OutputIsTransform ==
  /\ pc = "done" => fs[output_path] = File(Transform(InputData))
  /\ ( /\ pc = "done"
       /\ prev.ok
       /\ prev.file_path = file_path
       /\ prev.output_path = output_path
       /\ prev.input = InputData ) => OutputData = prev.output

C6_Witness ==
  /\ pc = "done"
  /\ file_path # output_path
  /\ fs0[output_path].exists
  /\ fs0[output_path].data # <<>>
  /\ OutputData # <<>>
  /\ OutputData[1] # fs0[output_path].data[1]

\* C7: the message is on standard output exactly once when a run has
\* succeeded and not at all otherwise, and it is printed only when the text
\* has been written to the output file and the output handle is closed.
C7_ReportedOnce ==
  /\ [](pc = "done" => stdout = <<Message(output_path)>>)
  /\ [](pc # "done" => stdout = <<>>)
  /\ [][(stdout' # stdout /\ stdout' # <<>>) =>
          ( /\ ~f_out
            /\ ~f_in
            /\ error = "none"
            /\ fs[output_path] = File(join(<<"\n">>, cleaned_lines)) )]_vars

C7_Witness ==
  /\ pc = "done"
  /\ stdout = <<Message(output_path)>>
  /\ OutputData # <<>>

\* C8: the two handles are never open together; the output handle is opened
\* only after the input was read to its end and its handle closed; the
\* output handle is closed by a successful run only after the text is
\* written; no handle is open when a run has ended.
C8_HandleDiscipline ==
  /\ [](~(f_in /\ f_out))
  /\ [](pc \in {"done", "error"} => ~f_in /\ ~f_out)
  /\ [][(f_out' /\ ~f_out) => (~f_in /\ lines = InputLines)]_vars
  /\ [][(f_out /\ ~f_out' /\ pc' # "error") =>
          OutputData = join(<<"\n">>, cleaned_lines)]_vars

C8_Witness ==
  /\ pc = "write"
  /\ f_out
  /\ ~f_in
  /\ Len(lines) >= 2

\* C9: in a run with two different paths no file other than the one at
\* output_path differs from what it was when the run started (so the input
\* file keeps its text), and at most one line is on standard output.
C9_Frame ==
  file_path # output_path =>
    /\ \A p \in Paths \ {output_path} : fs[p] = fs0[p]
    /\ Len(stdout) <= 1

C9_Witness ==
  /\ pc = "done"
  /\ file_path # output_path
  /\ fs0[file_path].data # <<>>
  /\ fs[output_path] # fs0[output_path]
  /\ fs[file_path] = fs0[file_path]

\* C10: a successful run with the same path for input and output leaves the
\* file holding the newline-joined cleaned lines of its original text, and
\* when the file is opened for writing its whole text is already in lines
\* and the read handle is closed.
C10_SamePath ==
  /\ [](pc = "done" /\ file_path = output_path =>
          fs[file_path] = File(Transform(fs0[file_path].data)))
  /\ [][(file_path = output_path /\ pc = "open_out" /\ pc' = "write") =>
          (~f_in /\ lines = readlines(fs[file_path].data))]_vars

C10_Witness ==
  /\ pc = "done"
  /\ file_path = output_path
  /\ Len(lines) >= 2
  /\ fs[file_path] # fs0[file_path]
  /\ fs[file_path].data # <<>>
====
